---------------------------- MODULE Spec2Model ----------------------------
(***************************************************************************)
(* The friends REST API: five route handlers over one table "Friend" with  *)
(* a SERIAL primary key and a unique index on email, the request schemas,  *)
(* and the application's error handler.                                    *)
(*                                                                         *)
(* Each client has one request in flight at a time; the server does not    *)
(* know which client sent a request.  A handler's steps are its            *)
(* persistence calls: every call is one statement, atomic in the database, *)
(* and the handlers of different requests interleave between calls (the    *)
(* awaits of the source).  List, Get and Create make one call; Update and  *)
(* Delete make an existence read and then a write.                         *)
(*                                                                         *)
(* The page Home with its dialog AddFriendDialog is a client of the API:   *)
(* its mount effect fetches the list, its form posts a create.  A step of  *)
(* the page is the code between two awaits.                                *)
(***************************************************************************)
EXTENDS Integers, Sequences, FiniteSets, Bags, TLC

\* ------------------------------------------------------------------ bounds

\* Values the SERIAL sequence may issue in a run; request ids range over them.
MaxSeq == 2

Clients == {"c1", "c2"}

\* ------------------------------------------------------------- JSON values

\* JSON null, and the marker of a key that the object does not carry.
NULL == "<null>"
ABSENT == "<absent>"

Fields == {"name", "title", "phoneNumber", "email", "xUsername", "instagramUsername"}
Nullable == {"title", "phoneNumber", "xUsername", "instagramUsername"}
\* The keys a request body may carry: the schema's, and one it does not know.
Keys == Fields \cup {"id"}

ValidEmails == {"ada@x.io", "bob@x.io"}

IsString(v) == v \notin {NULL, ABSENT}

\* z.string().email()
IsEmail(v) == v \in ValidEmails

\* Object.keys(data)
ObjectKeys(data) == {k \in DOMAIN data : data[k] # ABSENT}

\* z.object(...) keeps the keys of its shape and drops every other key.
Strip(body) == [k \in Fields |-> body[k]]

\* .nullable().optional(): a string, null, or no key at all.
NullableOptionalOk(body) == \A k \in Nullable : body[k] \in {NULL, ABSENT} \/ IsString(body[k])

\* FriendCreateSchema: name is a string of length >= 1, email is an email.
CreateSchemaOk(body) ==
    /\ IsString(body["name"]) /\ body["name"] # ""
    /\ IsString(body["email"]) /\ IsEmail(body["email"])
    /\ NullableOptionalOk(body)

\* Variant: the schema has no refinement.
RefineNothing(data) == TRUE

\* The refinement of FriendUpdateSchema, on the parsed (stripped) object.
RefineNonEmpty(data) == Cardinality(ObjectKeys(data)) > 0

\* The object of FriendUpdateSchema: every field optional; name and email
\* not nullable.
UpdateShapeOk(body) ==
    /\ body["name"] = ABSENT \/ (IsString(body["name"]) /\ body["name"] # "")
    /\ body["email"] = ABSENT \/ (IsString(body["email"]) /\ IsEmail(body["email"]))
    /\ NullableOptionalOk(body)

\* FriendUpdateSchema: the object, then the refinement.
UpdateSchemaOk(body) == UpdateShapeOk(body) /\ RefineNonEmpty(Strip(body))

\* The issue a failed parse reports: the refinement's message is the
\* source's, the others are the schema library's.
RefineMessage == "At least one field must be provided"
InvalidMessage == "Invalid input"
UpdateIssue(body) == IF UpdateShapeOk(body) THEN RefineMessage ELSE InvalidMessage

\* z.coerce.number().int().positive() on the path parameter.
ParamOk(id) == id > 0

\* Variant: only sentryTest=1 is recognised.
SentryTestOnlyOne(flag) == flag = "1"

\* sentryTest=1|true
SentryTest(flag) == flag = "1" \/ flag = "true"

\* ------------------------------------------------------------------ inputs

\* A JSON object with the keys of f.
Obj(f) == [k \in Keys |-> IF k \in DOMAIN f THEN f[k] ELSE ABSENT]

\* Bodies sent to POST /friends.
CreateBodies ==
    { Obj([name |-> "Ada", email |-> "ada@x.io"]),
      Obj([name |-> "Bob", email |-> "bob@x.io", title |-> "eng", phoneNumber |-> NULL]),
      Obj([name |-> "Bob", email |-> "ada@x.io", id |-> "1"]),
      Obj([name |-> "", email |-> "bob@x.io"]),
      Obj([name |-> "Ada", email |-> "not-an-email"]),
      Obj([title |-> "eng"]) }

\* Bodies sent to PUT /friends/{id}.
UpdateBodies ==
    { Obj([title |-> NULL]),
      Obj([name |-> "Bob", title |-> "eng"]),
      Obj([email |-> "bob@x.io", id |-> "2"]),
      Obj([id |-> "1"]),
      Obj([email |-> "not-an-email"]),
      Obj([name |-> NULL]),
      [k \in Keys |-> ABSENT] }

\* Values of the sentryTest query parameter.
Flags == {ABSENT, "0", "1", "true"}

\* Path parameters: 0 stands for every value the id schema rejects.
Params == 0..MaxSeq

\* ------------------------------------------------------------------- state

VARIABLES
    table,    \* the Friend table: id -> row
    seq,      \* the last value issued by the id sequence
    inflight, \* the bag of handlers between their existence read and their write
    last,     \* the response most recently sent, with what the request did
    created,  \* history: id -> the record its Create returned, while no write touched it
    deleted   \* history: the ids whose Delete was answered 204

vars == <<table, seq, inflight, last, created, deleted>>

\* The page: the state cells of Home and AddFriendDialog, the flag of the
\* mount effect's closure, and where the two async functions are.
VARIABLES
    friends,   \* useState<Friend[] | null>(null)
    loading,   \* useState(true)
    error,     \* useState<string | null>(null)
    cancelled, \* let cancelled = false, set by the effect's cleanup
    open,      \* useState(false) of AddFriendDialog
    effect,    \* the async function of the mount effect
    submit,    \* the async function onSubmit
    raised     \* the error onSubmit last threw

page == <<friends, loading, error, cancelled, open, effect, submit, raised>>

\* A client is free to send a request.
ClientFree == BagCardinality(inflight) < Cardinality(Clients)

\* A handler that has made its existence read: the route, the id, the body.
Handler(op, id, data) == [op |-> op, id |-> id, data |-> data]
NoData == Strip(Obj(<<>>))

NoBody == [empty |-> TRUE]
NoErr == [class |-> "none", message |-> ""]

\* -------------------------------------------------------- persistence layer

Put(f, i, v) == [j \in DOMAIN f \cup {i} |-> IF j = i THEN v ELSE f[j]]
\* Variant: the delete has no where clause and removes every row.
DropAll(f, i) == [j \in {} |-> f[j]]

\* The function without the entry of i (delete ... where id = i).
Drop(f, i) == [j \in DOMAIN f \ {i} |-> f[j]]

Max(S) == CHOOSE m \in S : \A x \in S : x <= m
Min(S) == CHOOSE m \in S : \A x \in S : m <= x

\* Variant: the id is one more than the largest id stored.
NextValFromRows == IF DOMAIN table = {} THEN 1 ELSE Max(DOMAIN table) + 1

\* "id" SERIAL NOT NULL: the column default is the sequence's next value.
NextVal == seq + 1

\* Columns without NOT NULL take NULL when the insert gives no value.
Column(v) == IF v = ABSENT THEN NULL ELSE v

\* Variant: the insert does not write the title column.
NewRowWithoutTitle(id, data) ==
    [k \in Fields \cup {"id"} |->
        IF k = "id" THEN id ELSE IF k = "title" THEN NULL ELSE Column(data[k])]

\* The row an insert of data builds.
NewRow(id, data) ==
    [k \in Fields \cup {"id"} |-> IF k = "id" THEN id ELSE Column(data[k])]

\* Variant: the update replaces the row, clearing the columns not given.
MergeRowReplacing(row, data) ==
    [k \in DOMAIN row |->
        IF k \in Fields /\ data[k] # ABSENT THEN data[k]
        ELSE IF k \in Nullable THEN NULL ELSE row[k]]

\* The row an update of row with data builds: the keys given are set.
MergeRow(row, data) ==
    [k \in DOMAIN row |-> IF k \in Fields /\ data[k] # ABSENT THEN data[k] ELSE row[k]]

\* Variant: the table has no unique index on email.
EmailTakenNoIndex(email, self) == FALSE

\* Variant: the index is consulted by inserts only (self = 0 is an insert).
EmailTakenOnInsertOnly(email, self) ==
    self = 0 /\ \E i \in DOMAIN table : table[i]["email"] = email

\* Friend_email_key: another row than `self` holds this email.
EmailTaken(email, self) ==
    \E i \in DOMAIN table \ {self} : table[i]["email"] = email

\* Variant: the where clause is ignored and the first row is returned.
FindFirst(id) == IF DOMAIN table # {} THEN table[Min(DOMAIN table)] ELSE NoBody

\* findUnique({ where: { id } }): the row, or null.
FindUnique(id) == IF id \in DOMAIN table THEN table[id] ELSE NoBody

\* --------------------------------------------------------------- responses

NotFoundBody == [message |-> "Friend not found"]

ZodErr(issue) == [class |-> "ZodError", message |-> issue]
UniqueErr == [class |-> "PrismaClientKnownRequestError", message |-> "P2002"]
MissingErr == [class |-> "PrismaClientKnownRequestError", message |-> "P2025"]
TestErr == [class |-> "Error",
            message |-> "Intentional test error in src/server/friends.routes.ts"]

\* Variant: the 500 envelope carries the error's message.
OnErrorLeaking(err) ==
    IF err.class = "ZodError"
    THEN [status |-> 400,
          body |-> [code |-> 400, errorCode |-> "VALIDATION_ERROR",
                    message |-> "Validation Error", errors |-> <<>>]]
    ELSE [status |-> 500,
          body |-> [code |-> 500, errorCode |-> "INTERNAL_SERVER_ERROR",
                    message |-> err.message]]

\* app.onError: the status and the JSON body.
OnError(err) ==
    IF err.class = "ZodError"
    THEN [status |-> 400,
          body |-> [code |-> 400, errorCode |-> "VALIDATION_ERROR",
                    message |-> "Validation Error", errors |-> <<>>]]
    ELSE [status |-> 500,
          body |-> [code |-> 500, errorCode |-> "INTERNAL_SERVER_ERROR",
                    message |-> "Internal Server Error"]]

\* An error thrown out of a handler or a middleware reaches app.onError.
Thrown(err) ==
    [status |-> OnError(err).status, body |-> OnError(err).body,
     via |-> "onError", err |-> err]

\* c.json(body, status) / c.body(null, status) in a handler.
Json(body, status) == [status |-> status, body |-> body, via |-> "handler", err |-> NoErr]

\* A request the route's schemas reject never enters the handler.  The
\* validating middleware is the framework's: it answers 400 with the parse
\* result itself, or raises the ZodError to app.onError.
Rejected(issue) ==
    { [status |-> 400, body |-> [success |-> FALSE, issue |-> issue],
       via |-> "validator", err |-> NoErr],
      Thrown(ZodErr(issue)) }

Send(op, id, r, calls, sentry) ==
    last' = [op |-> op, id |-> id, status |-> r.status, body |-> r.body,
             via |-> r.via, err |-> r.err, calls |-> calls, sentry |-> sentry]

\* ---------------------------------------------------------------- handlers

\* The orders findMany() may return the rows in (no orderBy is given).
Orders ==
    LET n == Cardinality(DOMAIN table)
    IN {s \in [1..n -> DOMAIN table] : \A i, j \in 1..n : i # j => s[i] # s[j]}

\* Variant: findMany({ take: 1 }) returns the first row of the order only.
FindManyTakeOne(s) == [i \in DOMAIN s \cap {1} |-> table[s[i]]]

\* findMany(): every row, in the order s.
FindMany(s) == [i \in DOMAIN s |-> table[s[i]]]

List ==
    /\ ClientFree
    /\ \E s \in Orders :
          Send("list", 0, Json([friends |-> FindMany(s)], 200), <<"findMany">>, <<>>)
    /\ UNCHANGED <<table, seq, inflight, created, deleted>>

Get(id) ==
    /\ ClientFree
    /\ IF ~ParamOk(id)
       THEN \E r \in Rejected(InvalidMessage) : Send("get", 0, r, <<>>, <<>>)
       ELSE LET friend == FindUnique(id)
            IN IF friend = NoBody
               THEN Send("get", id, Json(NotFoundBody, 404), <<"findUnique">>, <<>>)
               ELSE Send("get", id, Json(friend, 200), <<"findUnique">>, <<>>)
    /\ UNCHANGED <<table, seq, inflight, created, deleted>>

\* The reporting of the diagnostic branch; a failing flush is caught.
Report(flushOk) ==
    <<"captureMessage", "captureException", IF flushOk THEN "flush" ELSE "flushFailed">>

Create(body, flag) ==
    /\ ClientFree
    /\ IF ~CreateSchemaOk(body)
       THEN /\ \E r \in Rejected(InvalidMessage) : Send("create", 0, r, <<>>, <<>>)
            /\ UNCHANGED <<table, seq, created>>
       ELSE IF SentryTest(flag)
       THEN /\ \E flushOk \in BOOLEAN :
                  Send("create", 0, Thrown(TestErr), <<>>, Report(flushOk))
            /\ UNCHANGED <<table, seq, created>>
       ELSE LET data == Strip(body)
                row == NewRow(NextVal, data)
            IN /\ seq < MaxSeq
               /\ seq' = NextVal
               /\ IF EmailTaken(data["email"], 0)
                  THEN /\ Send("create", 0, Thrown(UniqueErr), <<"create">>, <<>>)
                       /\ UNCHANGED <<table, created>>
                  ELSE /\ table' = Put(table, row["id"], row)
                       /\ created' = Put(created, row["id"], row)
                       /\ Send("create", row["id"], Json(row, 201), <<"create">>, <<>>)
    /\ UNCHANGED <<inflight, deleted>>

\* Variant: the handler goes on to the write whatever the read found.
AfterReadAlwaysWrite(existing) == "write"

\* if (!existing) return 404; otherwise go on to the write.
AfterRead(existing) == IF existing = NoBody THEN "notFound" ELSE "write"

UpdateRead(id, body) ==
    /\ ClientFree
    /\ IF ~ParamOk(id)
       THEN /\ \E r \in Rejected(InvalidMessage) : Send("update", 0, r, <<>>, <<>>)
            /\ UNCHANGED inflight
       ELSE IF ~UpdateSchemaOk(body)
       THEN /\ \E r \in Rejected(UpdateIssue(body)) : Send("update", 0, r, <<>>, <<>>)
            /\ UNCHANGED inflight
       ELSE IF AfterRead(FindUnique(id)) = "notFound"
       THEN /\ Send("update", id, Json(NotFoundBody, 404), <<"findUnique">>, <<>>)
            /\ UNCHANGED inflight
       ELSE /\ inflight' = inflight (+) SetToBag({Handler("update", id, Strip(body))})
            /\ UNCHANGED last
    /\ UNCHANGED <<table, seq, created, deleted>>

UpdateWrite(h) ==
    LET id == h.id
        data == h.data
        calls == <<"findUnique", "update">>
    IN /\ h.op = "update"
       /\ BagIn(h, inflight)
       /\ inflight' = inflight (-) SetToBag({h})
       /\ IF id \notin DOMAIN table
          THEN /\ Send("update", id, Thrown(MissingErr), calls, <<>>)
               /\ UNCHANGED <<table, created>>
          ELSE IF data["email"] # ABSENT /\ EmailTaken(data["email"], id)
          THEN /\ Send("update", id, Thrown(UniqueErr), calls, <<>>)
               /\ UNCHANGED <<table, created>>
          ELSE /\ table' = Put(table, id, MergeRow(table[id], data))
               /\ created' = Drop(created, id)
               /\ Send("update", id, Json(table'[id], 200), calls, <<>>)
       /\ UNCHANGED <<seq, deleted>>

DeleteRead(id) ==
    /\ ClientFree
    /\ IF ~ParamOk(id)
       THEN /\ \E r \in Rejected(InvalidMessage) : Send("delete", 0, r, <<>>, <<>>)
            /\ UNCHANGED inflight
       ELSE IF AfterRead(FindUnique(id)) = "notFound"
       THEN /\ Send("delete", id, Json(NotFoundBody, 404), <<"findUnique">>, <<>>)
            /\ UNCHANGED inflight
       ELSE /\ inflight' = inflight (+) SetToBag({Handler("delete", id, NoData)})
            /\ UNCHANGED last
    /\ UNCHANGED <<table, seq, created, deleted>>

DeleteWrite(h) ==
    LET id == h.id
        calls == <<"findUnique", "delete">>
    IN /\ h.op = "delete"
       /\ BagIn(h, inflight)
       /\ inflight' = inflight (-) SetToBag({h})
       /\ IF id \notin DOMAIN table
          THEN /\ Send("delete", id, Thrown(MissingErr), calls, <<>>)
               /\ UNCHANGED <<table, created, deleted>>
          ELSE /\ table' = Drop(table, id)
               /\ created' = Drop(created, id)
               /\ deleted' = deleted \cup {id}
               /\ Send("delete", id, Json(NoBody, 204), calls, <<>>)
       /\ UNCHANGED seq

\* -------------------------------------------------------------------- page

\* Friend[] | null
NullList == [isNull |-> TRUE, items |-> <<>>]
ListOf(items) == [isNull |-> FALSE, items |-> items]

\* What a fetch resolves to: the status and the body of the response.
NoRes == [status |-> 0, body |-> NoBody]
Res(r) == [status |-> r.status, body |-> r.body]

\* res.ok
Ok(res) == res.status \in 200..299

\* The text of a response body: the JSON of the object, empty for no body.
Text(body) ==
    IF body = NoBody THEN ""
    ELSE IF "errorCode" \in DOMAIN body
    THEN IF body.code = 400
         THEN "{\"code\":400,\"errorCode\":\"VALIDATION_ERROR\",\"message\":\"Validation Error\",\"errors\":[]}"
         ELSE "{\"code\":500,\"errorCode\":\"INTERNAL_SERVER_ERROR\",\"message\":\"Internal Server Error\"}"
    ELSE IF "success" \in DOMAIN body THEN "{\"success\":false,\"error\":{}}"
    ELSE "{}"

\* `Request failed: ${res.status}` and `Failed with status ${res.status}`
RequestFailed(status) ==
    IF status = 500 THEN "Request failed: 500" ELSE "Request failed: 400"
FailedWithStatus(status) ==
    IF status = 500 THEN "Failed with status 500" ELSE "Failed with status 400"

\* The message of the error a fetch rejects with.
FetchFailed == "Failed to fetch"

\* new Error(text || `Failed with status ${res.status}`)
SubmitError(res) ==
    IF Text(res.body) # "" THEN Text(res.body) ELSE FailedWithStatus(res.status)

\* The values of the form: every field a string, "" by default.
FormValues(f) == [k \in Fields |-> IF k \in DOMAIN f THEN f[k] ELSE ""]

FormInputs ==
    { FormValues([name |-> "Ada", email |-> "ada@x.io"]),
      FormValues([name |-> "Bob", email |-> "bob@x.io", title |-> "eng", phoneNumber |-> "  "]),
      FormValues([name |-> "Cy", email |-> "ada@x.io", xUsername |-> "@cy"]),
      FormValues([email |-> "bob@x.io"]),
      FormValues([name |-> "Ada", email |-> "not-an-email"]) }

\* FormSchema, applied by the resolver before onSubmit is called.
FormSchemaOk(values) == values["name"] # "" /\ IsEmail(values["email"])

\* v.trim(), on the values of FormInputs.
Trim(v) == IF v = "  " THEN "" ELSE v

\* const toNull = (v?: string) => (v && v.trim() !== "" ? v : null)
toNull(v) == IF v # "" /\ Trim(v) # "" THEN v ELSE NULL

\* The payload onSubmit posts.
Payload(values) ==
    [k \in Keys |->
        IF k = "id" THEN ABSENT
        ELSE IF k \in Nullable THEN toNull(values[k]) ELSE values[k]]

Idle == [pc |-> "idle", payload |-> Payload(FormValues(<<>>)), res |-> NoRes]

HomeInit ==
    /\ friends = NullList
    /\ loading = TRUE
    /\ error = NULL
    /\ cancelled = FALSE
    /\ open = FALSE
    /\ effect = [pc |-> "get", res |-> NoRes, sets |-> <<>>]
    /\ submit = Idle
    /\ raised = NULL

\* The empty table, and the page as its first render and mount leave it.
Init ==
    /\ table = [i \in {} |-> 0]
    /\ seq = 0
    /\ inflight = EmptyBag
    /\ last = [op |-> "none", id |-> 0, status |-> 0, body |-> NoBody,
               via |-> "none", err |-> NoErr, calls |-> <<>>, sentry |-> <<>>]
    /\ created = [i \in {} |-> 0]
    /\ deleted = {}
    /\ HomeInit

\* The persistence layer cannot be reached: findMany throws.
DbErr == [class |-> "PrismaClientInitializationError", message |-> "P1001"]

ListUnavailable ==
    /\ ClientFree
    /\ Send("list", 0, Thrown(DbErr), <<"findMany">>, <<>>)
    /\ UNCHANGED <<table, seq, inflight, created, deleted>>

\* Variant: the effect does not look at the flag.
NotCancelledIgnored(flag) == TRUE

\* if (!cancelled)
NotCancelled(flag) == ~flag

\* The server handles the GET of the effect.
EffectServed ==
    /\ effect.pc = "get" /\ effect.res = NoRes
    /\ List \/ ListUnavailable
    /\ effect' = [effect EXCEPT !.res = Res(last')]
    /\ UNCHANGED <<friends, loading, error, cancelled, open, submit, raised>>

\* catch (e) { if (!cancelled) setError(...) } finally { if (!cancelled) setLoading(false) }
EffectCatch(message) ==
    /\ IF NotCancelled(cancelled)
       THEN /\ error' = message /\ loading' = FALSE
            /\ effect' = [effect EXCEPT !.pc = "done", !.sets = <<"setError", "setLoading">>]
       ELSE /\ UNCHANGED <<error, loading>>
            /\ effect' = [effect EXCEPT !.pc = "done"]
    /\ UNCHANGED friends

\* An await of the effect throws: the fetch, or the reading of the body.
EffectRejected ==
    /\ effect.pc \in {"get", "json"}
    /\ EffectCatch(FetchFailed)
    /\ UNCHANGED <<cancelled, open, submit, raised>>
    /\ UNCHANGED vars

\* await client.api.friends.$get({}) resolves.
EffectGetResolved ==
    /\ effect.pc = "get" /\ effect.res # NoRes
    /\ IF ~Ok(effect.res)
       THEN EffectCatch(RequestFailed(effect.res.status))
       ELSE /\ effect' = [effect EXCEPT !.pc = "json"]
            /\ UNCHANGED <<friends, loading, error>>
    /\ UNCHANGED <<cancelled, open, submit, raised>>
    /\ UNCHANGED vars

\* await res.json() resolves; then the finally block.
EffectJsonResolved ==
    /\ effect.pc = "json"
    /\ IF NotCancelled(cancelled)
       THEN /\ friends' = ListOf(effect.res.body.friends)
            /\ loading' = FALSE
            /\ effect' = [effect EXCEPT !.pc = "done", !.sets = <<"setFriends", "setLoading">>]
       ELSE /\ UNCHANGED <<friends, loading>>
            /\ effect' = [effect EXCEPT !.pc = "done"]
    /\ UNCHANGED <<error, cancelled, open, submit, raised>>
    /\ UNCHANGED vars

\* The cleanup of the effect, run when Home unmounts.
Unmount ==
    /\ ~cancelled
    /\ cancelled' = TRUE
    /\ UNCHANGED <<friends, loading, error, open, effect, submit, raised>>
    /\ UNCHANGED vars

\* The trigger, the Cancel button, the dialog's own closing: setOpen(o).
OnOpenChange(o) ==
    /\ ~cancelled
    /\ open # o
    /\ open' = o
    /\ UNCHANGED <<friends, loading, error, cancelled, effect, submit, raised>>
    /\ UNCHANGED vars

\* The form is submitted: the button is disabled while a submit is pending,
\* and onSubmit runs, up to its post, if the resolver accepts the values.
OnSubmitStart(values) ==
    /\ ~cancelled /\ open
    /\ submit.pc = "idle"
    /\ FormSchemaOk(values)
    /\ submit' = [pc |-> "post", payload |-> Payload(values), res |-> NoRes]
    /\ UNCHANGED <<friends, loading, error, cancelled, open, effect, raised>>
    /\ UNCHANGED vars

\* The server handles the POST of onSubmit.
PostServed ==
    /\ submit.pc = "post" /\ submit.res = NoRes
    /\ Create(submit.payload, ABSENT)
    /\ submit' = [submit EXCEPT !.res = Res(last')]
    /\ UNCHANGED <<friends, loading, error, cancelled, open, effect, raised>>

\* await client.api.friends.$post(...) throws.
PostRejected ==
    /\ submit.pc = "post"
    /\ raised' = FetchFailed
    /\ submit' = Idle
    /\ UNCHANGED <<friends, loading, error, cancelled, open, effect>>
    /\ UNCHANGED vars

\* await client.api.friends.$post(...) resolves; the body is awaited next.
PostResolved ==
    /\ submit.pc = "post" /\ submit.res # NoRes
    /\ submit' = [submit EXCEPT !.pc = "body"]
    /\ UNCHANGED <<friends, loading, error, cancelled, open, effect, raised>>
    /\ UNCHANGED vars

\* Variant: the new record is put after the others.
OnCreatedAppending(prev, f) ==
    IF prev.isNull THEN ListOf(<<f>>) ELSE ListOf(prev.items \o <<f>>)

\* onCreated={(f) => setFriends((prev) => (prev ? [f, ...prev] : [f]))}
OnCreated(prev, f) ==
    IF prev.isNull THEN ListOf(<<f>>) ELSE ListOf(<<f>> \o prev.items)

\* The body is read: throw with its text, or onCreated, setOpen(false).
OnSubmitEnd ==
    /\ submit.pc = "body"
    /\ IF ~Ok(submit.res)
       THEN /\ raised' = SubmitError(submit.res)
            /\ UNCHANGED <<friends, open>>
       ELSE /\ friends' = OnCreated(friends, submit.res.body)
            /\ open' = FALSE
            /\ UNCHANGED raised
    /\ submit' = Idle
    /\ UNCHANGED <<loading, error, cancelled, effect>>
    /\ UNCHANGED vars

\* The API under clients other than the page, whose requests are not served.
Next ==
    \/ List /\ UNCHANGED page
    \/ \E id \in Params : Get(id) /\ UNCHANGED page
    \/ \E body \in CreateBodies, flag \in Flags : Create(body, flag) /\ UNCHANGED page
    \/ \E id \in Params, body \in UpdateBodies : UpdateRead(id, body) /\ UNCHANGED page
    \/ \E h \in BagToSet(inflight) : UpdateWrite(h) /\ UNCHANGED page
    \/ \E id \in Params : DeleteRead(id) /\ UNCHANGED page
    \/ \E h \in BagToSet(inflight) : DeleteWrite(h) /\ UNCHANGED page

Spec == Init /\ [][Next]_<<vars, page>>

PageNext ==
    \/ EffectServed
    \/ EffectRejected
    \/ EffectGetResolved
    \/ EffectJsonResolved
    \/ Unmount
    \/ \E o \in BOOLEAN : OnOpenChange(o)
    \/ \E values \in FormInputs : OnSubmitStart(values)
    \/ PostServed
    \/ PostRejected
    \/ PostResolved
    \/ OnSubmitEnd

\* The page as the only client of the API.
PageSpec == Init /\ [][PageNext]_<<vars, page>>

TypeOK ==
    /\ seq \in 0..MaxSeq
    /\ DOMAIN table \subseteq 1..seq
    /\ \A i \in DOMAIN table : table[i]["id"] = i
    /\ deleted \subseteq 1..seq

\* ------------------------------------------------------------------ claims

InternalEnvelope ==
    [code |-> 500, errorCode |-> "INTERNAL_SERVER_ERROR", message |-> "Internal Server Error"]
ValidationEnvelope ==
    [code |-> 400, errorCode |-> "VALIDATION_ERROR", message |-> "Validation Error",
     errors |-> <<>>]

\* The ids ever given to a record: rows leave the table only by a Delete.
Issued == DOMAIN table \cup deleted

\* Some row holds this email.
HasEmail(email) == \E i \in DOMAIN table : table[i]["email"] = email

\* A step that changes the state and whose response is of operation op.
Answers(op) == vars' # vars /\ last'.op = op

Is404(r) == r.status = 404 /\ r.body = NotFoundBody /\ r.via = "handler"

\* C1: a 201 sent by a Create of a payload the create schema accepts,
\* without the diagnostic flag, carries a record with the payload's name and
\* email, each optional field as supplied or null when absent, and a positive
\* id that no earlier record was given, the deleted ones included.
C1_CreateEchoesInputWithFreshId ==
    [][(Answers("create") /\ last'.status = 201) =>
       \A body \in CreateBodies, flag \in Flags :
          (CreateSchemaOk(body) /\ flag \notin {"1", "true"} /\ Create(body, flag))
          => /\ last'.body["name"] = body["name"]
             /\ last'.body["email"] = body["email"]
             /\ \A k \in Nullable :
                   last'.body[k] = IF body[k] = ABSENT THEN NULL ELSE body[k]
             /\ last'.body["id"] \in Nat \ {0}
             /\ last'.body["id"] \notin Issued
             /\ last'.body["id"] = last'.id]_vars

\* C1 witness: a 201 for the payload with a title and an explicit null, sent
\* after an earlier record was deleted.
C1_Witness ==
    /\ last.op = "create" /\ last.status = 201
    /\ last.body["title"] = "eng" /\ last.body["phoneNumber"] = NULL
    /\ last.body["id"] = 2 /\ deleted = {1}

\* C2: a Create whose email is the email of a row of the table is not
\* answered 201 and leaves the table as it was, so that no later List shows
\* a record of that request: a Create step that is answered 201 or changes
\* the table is of a payload whose email no row holds.
C2_DuplicateEmailCreateFails ==
    [][Answers("create") =>
       \/ last'.status \in {400, 500} /\ table' = table
       \/ \A body \in CreateBodies, flag \in Flags :
             HasEmail(body["email"]) => ~Create(body, flag)]_vars

\* C2 witness: the persistence create was called for an email a row holds
\* and the request failed.
C2_Witness ==
    /\ last.op = "create" /\ last.status = 500 /\ last.calls = <<"create">>
    /\ last.err = UniqueErr /\ Cardinality(DOMAIN table) = 1

\* C3: a Get, Update or Delete whose id has no row when the handler makes
\* its read (Get) or its write (Update, Delete) is answered with the fixed
\* 404 envelope, never with a 500.
C3_MissingTargetIs404 ==
    [][(last'.op \in {"get", "update", "delete"} /\ vars' # vars) =>
       \/ Is404(last')
       \/ /\ \A id \in Params : (ParamOk(id) /\ id \notin DOMAIN table) => ~Get(id)
          /\ \A h \in BagToSet(inflight) :
                h.id \notin DOMAIN table => ~(UpdateWrite(h) \/ DeleteWrite(h))]_vars

\* C4: an Update whose body carries none of the recognised fields is
\* rejected by validation with no persistence call, neither the existence
\* read nor the write, whether or not a row has the id.
C4_EmptyUpdateRejectedBeforePersistence ==
    [][(last'.op = "update" \/ inflight' # inflight) =>
       \/ /\ last'.status = 400 /\ last'.via \in {"validator", "onError"}
          /\ last'.calls = <<>>
          /\ UNCHANGED <<table, seq, inflight>>
       \/ \A id \in Params, body \in UpdateBodies :
             (ParamOk(id) /\ \A k \in Fields : body[k] = ABSENT) => ~UpdateRead(id, body)]_vars

\* C4 witness: the validator reported the refinement's message while a row
\* was in the table.
C4_Witness ==
    /\ last.op = "update" /\ last.status = 400 /\ last.calls = <<>>
    /\ last.body = [success |-> FALSE, issue |-> "At least one field must be provided"]
    /\ DOMAIN table # {}

\* C5: while no Update or Delete of its id has taken effect, a Get of the id
\* of a record a Create returned is answered 200 with that record.
C5_GetReturnsCreatedRecord ==
    (last.op = "get" /\ last.id \in DOMAIN created)
    => (last.status = 200 /\ last.body = created[last.id])

\* C5 witness: the record was read back after another record was updated.
C5_Witness ==
    /\ last.op = "get" /\ last.status = 200 /\ last.id = 2
    /\ 2 \in DOMAIN created /\ 1 \in DOMAIN table \ DOMAIN created

\* C6: once a Delete of an id was answered 204, a Get of that id is answered
\* with the 404 envelope, whatever was processed in between.
C6_DeletedIdStaysNotFound ==
    (last.op = "get" /\ last.id \in deleted) => Is404(last)

\* C6 witness: the Get came after the Delete and after a later Create.
C6_Witness ==
    /\ last.op = "get" /\ Is404(last) /\ last.id = 1 /\ 1 \in deleted
    /\ 2 \in DOMAIN table

\* C7: an Update answered 200 sets exactly the fields its payload carries to
\* the values given (null included), leaves the other fields and the id of
\* that row and every other row as they were, and answers with the row as
\* stored.
C7_PartialUpdateFrame ==
    [][(Answers("update") /\ last'.status = 200) =>
       \A h \in BagToSet(inflight) : UpdateWrite(h) =>
          /\ DOMAIN table' = DOMAIN table
          /\ \A k \in Fields :
                table'[h.id][k] = IF h.data[k] # ABSENT THEN h.data[k] ELSE table[h.id][k]
          /\ table'[h.id]["id"] = h.id
          /\ \A j \in DOMAIN table \ {h.id} : table'[j] = table[j]
          /\ last'.body = table'[h.id]]_vars

\* C7 witness: a title was cleared by an explicit null in a row whose name an
\* earlier update had set, with another row in the table.
C7_Witness ==
    /\ last.op = "update" /\ last.status = 200
    /\ last.body["title"] = NULL /\ last.body["name"] = "Bob"
    /\ last.body["email"] = "ada@x.io"
    /\ Cardinality(DOMAIN table) = 2

\* C8: when the existence read of an Update or a Delete finds no row, the
\* handler answers 404 without the write, and the table is as it was.
C8_NotFoundWithoutWrite ==
    [][(last'.op \in {"update", "delete"} \/ inflight' # inflight) =>
       \/ /\ Is404(last') /\ last'.calls = <<"findUnique">>
          /\ UNCHANGED <<table, seq, inflight>>
       \/ \A id \in Params : (ParamOk(id) /\ id \notin DOMAIN table) =>
             /\ ~DeleteRead(id)
             /\ \A body \in UpdateBodies : UpdateSchemaOk(body) => ~UpdateRead(id, body)]_vars

\* C8 witness: an Update of an id whose row was deleted.
C8_Witness ==
    /\ last.op = "update" /\ Is404(last) /\ last.calls = <<"findUnique">>
    /\ last.id \in deleted

\* C9: a Create with the diagnostic flag, of a payload the schema accepts,
\* reports the synthetic error and raises it without calling the
\* persistence create: the table is as it was and the answer is the 500
\* envelope, also when the flush of the report fails.
C9_DiagnosticCreateTouchesNothing ==
    [][Answers("create") =>
       \/ /\ last'.status = 500 /\ last'.body = InternalEnvelope
          /\ last'.calls = <<>>
          /\ SubSeq(last'.sentry, 1, 2) = <<"captureMessage", "captureException">>
          /\ UNCHANGED <<table, seq>>
       \/ \A body \in CreateBodies, flag \in {"1", "true"} :
             CreateSchemaOk(body) => ~Create(body, flag)]_vars

\* C9 witness: the flush failed, on an empty table that any accepted payload
\* could have been created in.
C9_Witness ==
    /\ last.op = "create" /\ last.status = 500
    /\ last.sentry = <<"captureMessage", "captureException", "flushFailed">>
    /\ DOMAIN table = {} /\ seq = 0

\* C10: the error handler answers every error raised to it with one of two
\* fixed envelopes: a schema validation error with 400 and the validation
\* envelope, any other error with 500 and the internal envelope; the
\* envelope carries nothing of the error.
C10_ErrorEnvelopes ==
    /\ last.err # NoErr => last.via = "onError"
    /\ last.via = "onError" =>
          IF last.err.class = "ZodError"
          THEN last.status = 400 /\ last.body = ValidationEnvelope
          ELSE last.status = 500 /\ last.body = InternalEnvelope
    /\ last.status = 500 => last.via = "onError"

\* C10 witness: a constraint violation raised by the write of an Update.
C10_Witness ==
    /\ last.via = "onError" /\ last.op = "update" /\ last.err = UniqueErr
    /\ last.status = 500

\* No two rows of t hold the same email.
EmailsDistinct(t) == \A i, j \in DOMAIN t : i # j => t[i]["email"] # t[j]["email"]

\* C11: no two rows of the table ever hold the same email; a Create whose
\* email a row holds, and the write of an Update that sets the email of
\* another row, is answered with an error and leaves the table as it was.
C11_EmailUniqueness ==
    /\ []EmailsDistinct(table)
    /\ [][(Answers("create") \/ Answers("update")) =>
          \/ last'.status \in {400, 500} /\ last'.via # "handler" /\ table' = table
          \/ /\ \A body \in CreateBodies, flag \in Flags :
                   HasEmail(body["email"]) => ~Create(body, flag)
             /\ \A h \in BagToSet(inflight) :
                   (h.op = "update" /\ h.data["email"] # ABSENT
                      /\ EmailTaken(h.data["email"], h.id)) => ~UpdateWrite(h)]_vars

\* C11 witness: the write of an Update that sets the email of the other row
\* was refused by the index, and both rows are as their Creates left them.
C11_Witness ==
    /\ last.op = "update" /\ last.calls = <<"findUnique", "update">>
    /\ last.err = UniqueErr /\ last.id = 1
    /\ DOMAIN created = {1, 2}
    /\ table[1]["email"] = "ada@x.io" /\ table[2]["email"] = "bob@x.io"

\* The ids of the rows of t are positive integers, one row per id.
IdsDistinctPositive(t) ==
    /\ \A i \in DOMAIN t : t[i]["id"] \in Nat \ {0}
    /\ \A i, j \in DOMAIN t : i # j => t[i]["id"] # t[j]["id"]

\* C12: the ids of the rows are pairwise distinct positive integers; a row
\* that enters the table has an id greater than every id a record was given
\* before, the deleted ones included, and a Create answered 201 adds the row
\* of the id it returns; no step changes the id of a row that stays, an
\* Update whose body carries an "id" key included.
C12_IdsDistinctMonotoneImmutable ==
    /\ []IdsDistinctPositive(table)
    /\ [][/\ \A i \in DOMAIN table \cap DOMAIN table' : table'[i]["id"] = table[i]["id"]
          /\ \A n \in DOMAIN table' \ DOMAIN table :
                table'[n]["id"] = n /\ \A i \in Issued : n > i
          /\ (last' # last /\ last'.op = "create" /\ last'.status = 201)
                => last'.body["id"] \in DOMAIN table' \ DOMAIN table]_vars

\* C12 witness: the second record was created after the first was deleted,
\* and an Update whose body carries "id": "2" has set its email.
C12_Witness ==
    /\ last.op = "update" /\ last.status = 200 /\ last.id = 2
    /\ last.body["id"] = 2 /\ last.body["email"] = "bob@x.io" /\ last.body["name"] = "Ada"
    /\ deleted = {1} /\ DOMAIN table = {2}

\* C13: the delete statement of a Delete whose id has a row removes that row
\* and no other, leaves every other row as it was, so that the table has one
\* row less, and the handler answers 204 with no body; rows leave the table
\* in no other way.
C13_DeleteRemovesExactlyOne ==
    [][/\ Answers("delete") =>
             \/ /\ last'.status = 204 /\ last'.body = NoBody /\ last'.via = "handler"
                /\ last'.id \in DOMAIN table
                /\ DOMAIN table' = DOMAIN table \ {last'.id}
                /\ Cardinality(DOMAIN table') = Cardinality(DOMAIN table) - 1
                /\ \A j \in DOMAIN table' : table'[j] = table[j]
             \/ \A h \in BagToSet(inflight) : h.id \in DOMAIN table => ~DeleteWrite(h)
       /\ DOMAIN table \ DOMAIN table' # {} =>
             last'.op = "delete" /\ last'.status = 204]_vars

\* C13 witness: the first of two rows was deleted and the second, which an
\* Update had changed, is in the table.
C13_Witness ==
    /\ last.op = "delete" /\ last.status = 204 /\ last.body = NoBody /\ last.id = 1
    /\ DOMAIN table = {2} /\ 2 \notin DOMAIN created

\* C14: a List leaves the table and the sequence as they were and answers
\* 200 with every row of the table as it was when findMany ran, each row
\* once and whole, in an order of the persistence layer's choosing; no step
\* of a List answers anything else.
C14_ListIsFullSnapshot ==
    [][List =>
         /\ UNCHANGED <<table, seq, inflight>>
         /\ last'.status = 200 /\ last'.via = "handler"
         /\ last'.calls = <<"findMany">>
         /\ LET listed == last'.body.friends
            IN /\ Len(listed) = Cardinality(DOMAIN table)
               /\ {listed[i] : i \in DOMAIN listed} = {table[i] : i \in DOMAIN table}
               /\ \A i \in DOMAIN listed : DOMAIN listed[i] = Fields \cup {"id"}]_vars

\* C14 witness: two rows listed, the row of the larger id first, while an
\* Update was between its read and its write.
C14_Witness ==
    /\ last.op = "list" /\ last.status = 200
    /\ Len(last.body.friends) = 2 /\ last.body.friends[1]["id"] = 2
    /\ inflight # EmptyBag

\* C15: once the cleanup of the mount effect has run, no step of the effect
\* calls setFriends, setError or setLoading, and none changes the friends,
\* the error or the loading state, whether its request then resolves with
\* the list, resolves with a status that is not ok, or rejects.
C15_NoUpdateAfterUnmount ==
    [][cancelled =>
         /\ effect'.sets = effect.sets
         /\ effect' # effect => UNCHANGED <<friends, error, loading>>]_<<vars, page>>

\* C15 witness: the page was unmounted while its request was pending; the
\* request resolved with a list of one record and the effect ran to its end
\* without a call of a setter.
C15_Witness ==
    /\ cancelled /\ effect.pc = "done" /\ effect.sets = <<>>
    /\ effect.res.status = 200 /\ Len(effect.res.body.friends) = 1
    /\ friends = NullList /\ loading = TRUE /\ error = NULL

\* C16: when onSubmit has read the body of its response: if the response is
\* ok, the record the server created for the payload is the first element of
\* the friends list, followed by the elements the list had, in their order
\* (none when it was null), and the dialog is closed; if it is not ok, the
\* list and the dialog are as they were and the error raised carries the
\* text of the response.
C16_SubmitPrependsOrRaises ==
    [][OnSubmitEnd =>
         LET res == submit.res
         IN IF res.status \in 200..299
            THEN /\ ~friends'.isNull
                 /\ Len(friends'.items) = Len(friends.items) + 1
                 /\ friends'.items[1] = res.body
                 /\ \A i \in DOMAIN friends.items : friends'.items[i + 1] = friends.items[i]
                 /\ friends.isNull => friends'.items = <<res.body>>
                 /\ res.body["id"] \in DOMAIN table /\ res.body = table[res.body["id"]]
                 /\ res.body["email"] = submit.payload["email"]
                 /\ open' = FALSE
                 /\ raised' = raised
            ELSE /\ friends' = friends
                 /\ open' = open
                 /\ raised' = Text(res.body) /\ raised' \notin {"", NULL}]_<<vars, page>>

\* C16 witness: two submits were answered 201 before the list request was
\* served; the second record is in front of the first and the dialog is
\* closed.
C16_Witness ==
    /\ effect.pc = "get" /\ effect.res = NoRes
    /\ submit = Idle /\ ~open /\ raised = NULL
    /\ Len(friends.items) = 2
    /\ friends.items[1] = table[2] /\ friends.items[2] = table[1]

\* The ids of the entries of the friends list.
ListedIds == {friends.items[i]["id"] : i \in DOMAIN friends.items}

\* C17: the friends list never holds two entries of one id, and when the
\* mount effect has ended and no submit is pending, none having thrown, the
\* list holds every record a submit created.
C17_NoDuplicateNoLoss ==
    /\ \A i, j \in DOMAIN friends.items :
          i # j => friends.items[i]["id"] # friends.items[j]["id"]
    /\ (effect.pc = "done" /\ submit.pc = "idle" /\ raised = NULL)
          => DOMAIN created \subseteq ListedIds

=============================================================================
